---------------------------- MODULE Spec2Model ----------------------------
(***************************************************************************)
(* A model of the two chart components of brown-ccv/elmo:                  *)
(*   CalendarHeatmap  (src/unnamed/part_000)                               *)
(*   TimeSeriesPlot   (src/src/components/TimeSeriesPlot/TimeSeriesPlot.tsx)*)
(*                                                                         *)
(* Three specifications share the module:                                  *)
(*   SpecGrid     the calendar grid of the heatmap (dates, cells, fills,   *)
(*                cell tooltips) for a start date and a local time zone;   *)
(*   SpecPointer  the mousemove handlers (bisection, tooltip placement);   *)
(*   Spec         the life cycle of one mounted component (fetch effect,   *)
(*                resize effect, draw effect, render guards).              *)
(*                                                                         *)
(* Instants (JavaScript Date values) are whole hours since                 *)
(* 1970-01-01T00:00Z: every instant the components compute from the inputs *)
(* of the model is a whole hour, so getTime() / (24*60*60*1000) is the     *)
(* instant divided by HoursPerDay.                                         *)
(***************************************************************************)
EXTENDS Integers, Sequences, FiniteSets, TLC

VARIABLES
    \* ---- SpecGrid: CalendarHeatmap's date range and grid
    gpc,            \* "props" | "loop" | "memo" | "drawn" | "hover" | "out"
    zone,           \* the local time zone of the browser
    clockYear,      \* new Date().getFullYear() at the first render
    propStartDate,  \* the startDate prop: an instant, or NoDate (undefined)
    startDate,      \* useMemo startDate
    endDate,        \* useMemo endDate
    currentDate,    \* the loop variable of allDatesInRange
    allDates,       \* useMemo allDatesInRange: a sequence of instants
    dayData,        \* the data state drawHeatmap closes over: rows [date, value]
    cells,          \* the .day rects drawHeatmap appended, in order
    monthLabels,    \* the .month-label texts drawHeatmap appended, in order
    hoverCell,      \* index of the cell under the pointer, 0 if none
    cellTip,        \* the html the cell's mousemove handler wrote
    \* ---- SpecPointer: one mousemove on a drawn chart
    ppc,            \* "idle" | "over" | "moved" | "out"
    chart,          \* "timeseries" | "heatmap"
    containerWidth, \* containerRef.current.clientWidth
    series,         \* the data drawPlot closed over: rows [time, allocated, total]
    mouse,          \* [x, y] as d3.pointer returned it
    tip,            \* the tooltip div: opacity, left, top, and what it shows
    \* ---- Spec: one mounted component
    kind,           \* "timeseries" | "heatmap"
    mounted,        \* the component is in the tree
    crashed,        \* an exception escaped an effect of the component
    props,          \* [chip, startDate, endDate, interval, lineColor]
    data,           \* useState data
    loading,        \* useState loading
    error,          \* useState error
    fetches,        \* the fetchData calls so far, each with its isMounted flag
    svg,            \* what the svg shows, and the size its scales were built for
    clientWidth,    \* containerRef.current.clientWidth
    handlerProps,   \* the props the registered handleResize closed over
    lastCommit,     \* history: the last fetch that committed state
    change,         \* history: the last input change, and what it triggered
    sizeEvent       \* history: how the container last changed size

gridVars == <<gpc, zone, clockYear, propStartDate, startDate, endDate,
              currentDate, allDates, dayData, cells, monthLabels, hoverCell,
              cellTip>>
ptrVars  == <<ppc, chart, containerWidth, series, mouse, tip>>
compVars == <<kind, mounted, crashed, props, data, loading, error, fetches,
              svg, clientWidth, handlerProps, lastCommit, change, sizeEvent>>
vars     == <<gridVars, ptrVars, compVars>>

-----------------------------------------------------------------------------
(* Values of the component's state.                                         *)

\* A fetch URL's parameters; NoParams stands for none.
NoParams == [chip |-> "", interval |-> "", start |-> 0, end |-> 0]

\* data: null, a JSON array of rows (fetched by fetch number id for the
\* parameters "for"), or another JSON value.
NullData == [is |-> "null", for |-> NoParams, rows |-> 0, id |-> 0]

\* error: null, or the message setError was given.
NoError == [kind |-> "none", status |-> 0]

\* An svg without content (a cleared one, or none in the page).
NoSvg == [series |-> 0, for |-> NoParams, rows |-> 0, width |-> 0,
          height16 |-> 0, color |-> "", chip |-> ""]

NoCommit == [id |-> 0, latest |-> 0, params |-> NoParams, current |-> NoParams,
             wasMounted |-> FALSE, status |-> 0]

\* The variables of the component specification, at rest.
CompIdle ==
    /\ kind = "timeseries"
    /\ mounted = FALSE
    /\ crashed = FALSE
    /\ props = [chip |-> "", startDate |-> 0, endDate |-> 0, interval |-> "",
                lineColor |-> ""]
    /\ data = NullData
    /\ loading = TRUE
    /\ error = NoError
    /\ fetches = <<>>
    /\ svg = NoSvg
    /\ clientWidth = 0
    /\ handlerProps = props
    /\ lastCommit = NoCommit
    /\ change = [name |-> "", fetches |-> 0, draws |-> 0]
    /\ sizeEvent = "none"

-----------------------------------------------------------------------------
(* The JavaScript Date arithmetic the components rely on.                   *)

HoursPerDay == 24

NoDate == -1

\* Days since 1970-01-01 of the proleptic Gregorian date y-(m+1)-d; months are
\* 0-based as in JavaScript and d may lie outside the month (MakeDay).
DaysFromCivil(y, m, d) ==
    LET yy  == IF m <= 1 THEN y - 1 ELSE y
        era == yy \div 400
        yoe == yy - era * 400
        mp  == IF m >= 2 THEN m - 2 ELSE m + 10
        doy == (153 * mp + 2) \div 5
        doe == yoe * 365 + yoe \div 4 - yoe \div 100 + doy
    IN  era * 146097 + doe - 719468 + (d - 1)

\* The calendar date [y, m, d] of a day number; m is 0-based.
CivilFromDays(z) ==
    LET zz  == z + 719468
        era == zz \div 146097
        doe == zz - era * 146097
        yoe == (doe - doe \div 1460 + doe \div 36524 - doe \div 146096) \div 365
        doy == doe - (365 * yoe + yoe \div 4 - yoe \div 100)
        mp  == (5 * doy + 2) \div 153
        d   == doy - (153 * mp + 2) \div 5 + 1
        m   == IF mp < 10 THEN mp + 2 ELSE mp - 10
        y   == yoe + era * 400 + (IF m <= 1 THEN 1 ELSE 0)
    IN  [y |-> y, m |-> m, d |-> d]

\* Day of the week of a day number, Sunday = 0 (1970-01-01 was a Thursday).
WeekDayOf(dayNo) == (dayNo + 4) % 7

\* The day number of the n-th (n >= 1) Sunday of month m of year y, and of
\* its last Sunday.
NthSunday(y, m, n) ==
    LET first == DaysFromCivil(y, m, 1)
    IN  first + ((7 - WeekDayOf(first)) % 7) + 7 * (n - 1)

LastSunday(y, m) ==
    LET last == DaysFromCivil(y, m + 1, 1) - 1
    IN  last - WeekDayOf(last)

\* Time zones: a standard offset in hours and a daylight-saving rule.
\*   "us": second Sunday of March 02:00 local standard time to the first
\*         Sunday of November 02:00 local daylight time;
\*   "eu": last Sunday of March 01:00Z to the last Sunday of October 01:00Z.
Zones ==
    { [name |-> "UTC",              std |-> 0,  rule |-> "none"],
      [name |-> "America/New_York", std |-> -5, rule |-> "us"],
      [name |-> "Europe/Berlin",    std |-> 1,  rule |-> "eu"],
      [name |-> "Asia/Tokyo",       std |-> 9,  rule |-> "none"] }

DstStart(z, y) ==
    IF z.rule = "us" THEN NthSunday(y, 2, 2) * HoursPerDay + 2 - z.std
                     ELSE LastSunday(y, 2) * HoursPerDay + 1

DstEnd(z, y) ==
    IF z.rule = "us" THEN NthSunday(y, 10, 1) * HoursPerDay + 2 - (z.std + 1)
                     ELSE LastSunday(y, 9) * HoursPerDay + 1

InDst(z, t) ==
    /\ z.rule # "none"
    /\ LET y == CivilFromDays(t \div HoursPerDay).y
       IN  DstStart(z, y) <= t /\ t < DstEnd(z, y)

\* LocalTZA(t, true): the offset in force at the instant t.
LocalOffset(z, t) == z.std + (IF InDst(z, t) THEN 1 ELSE 0)

LocalTime(z, t) == t + LocalOffset(z, t)

\* UTC(tlocal): the instant of a local time value.  A local time that a
\* transition skips or repeats is read with the offset in force before the
\* transition (ECMA-262, LocalTZA(t, false)).
UtcOf(z, tl) ==
    LET dstOk == LocalOffset(z, tl - (z.std + 1)) = z.std + 1
    IN  IF dstOk THEN tl - (z.std + 1)     \* unique, or repeated: before = DST
        ELSE tl - z.std                    \* unique, or skipped: before = std

LocalDayNo(z, t) == LocalTime(z, t) \div HoursPerDay
LocalHour(z, t)  == LocalTime(z, t) % HoursPerDay

GetDay(z, t)      == WeekDayOf(LocalDayNo(z, t))
GetDate(z, t)     == CivilFromDays(LocalDayNo(z, t)).d
GetMonth(z, t)    == CivilFromDays(LocalDayNo(z, t)).m
GetFullYear(z, t) == CivilFromDays(LocalDayNo(z, t)).y

\* new Date(y, m, d): local midnight of a calendar date.
LocalDate(z, y, m, d) == UtcOf(z, DaysFromCivil(y, m, d) * HoursPerDay)

\* date.setDate(n): same local year, month and time of day, day n.
SetDate(z, t, n) ==
    UtcOf(z, DaysFromCivil(GetFullYear(z, t), GetMonth(z, t), n) * HoursPerDay
             + LocalHour(z, t))

\* date.setFullYear(y): same local month, day and time of day, year y.
SetFullYear(z, t, y) ==
    UtcOf(z, DaysFromCivil(y, GetMonth(z, t), GetDate(z, t)) * HoursPerDay
             + LocalHour(z, t))

\* new Date("YYYY-MM-DD"): midnight UTC of the date (a date-only ISO string).
IsoDate(y, m, d) == DaysFromCivil(y, m, d) * HoursPerDay

\* date.toISOString().split('T')[0]: the UTC calendar date of the instant.
IsoDayKey(t) == t \div HoursPerDay

-----------------------------------------------------------------------------
(* CalendarHeatmap: the date range and the grid (src/unnamed/part_000).     *)

\* useMemo startDate: the prop, or January 1st of the current year, local.
StartDateMemo(z, prop, year) ==
    IF prop # NoDate THEN prop ELSE LocalDate(z, year, 0, 1)

\* useMemo endDate: one year after startDate, minus one day.
EndDateMemo(z, start) ==
    LET end == SetFullYear(z, start, GetFullYear(z, start) + 1)
    IN  SetDate(z, end, GetDate(z, end) - 1)

\* currentDate.setDate(currentDate.getDate() + 1)
NextDay(z, d) == SetDate(z, d, GetDate(z, d) + 1)

\* The loop that walks firstSunday back to a Sunday.
RECURSIVE FirstSundayLoop(_, _)
FirstSundayLoop(z, d) ==
    IF GetDay(z, d) # 0 THEN FirstSundayLoop(z, SetDate(z, d, GetDate(z, d) - 1))
    ELSE d

FirstSunday(z, start) == FirstSundayLoop(z, start)

\* getWeekNumber: whole days of 24 hours since firstSunday, in weeks.
GetWeekNumber(firstSunday, date) ==
    LET daysSinceStart == (date - firstSunday) \div HoursPerDay
    IN  daysSinceStart \div 7

\* visibleDates: the dates of allDatesInRange within [startDate, endDate].
VisibleDates(dates, start, end) ==
    SelectSeq(dates, LAMBDA d : d >= start /\ d <= end)

\* dataMap: the lookup of row values by the date part of the row's time;
\* a later row of the same key replaces an earlier one.
DataMapHas(rows, key) == \E i \in 1..Len(rows) : IsoDayKey(rows[i].date) = key

DataMapGet(rows, key) ==
    LET hits == {i \in 1..Len(rows) : IsoDayKey(rows[i].date) = key}
    IN  rows[CHOOSE i \in hits : \A j \in hits : j <= i].value

\* d3.min / d3.max of the values, "|| 0" included.
RECURSIVE SeqMin(_)
SeqMin(s) == IF Len(s) = 1 THEN s[1].value
             ELSE LET m == SeqMin(Tail(s)) IN IF s[1].value < m THEN s[1].value ELSE m

RECURSIVE SeqMax(_)
SeqMax(s) == IF Len(s) = 1 THEN s[1].value
             ELSE LET m == SeqMax(Tail(s)) IN IF s[1].value > m THEN s[1].value ELSE m

MinValue(rows) == IF rows = <<>> THEN 0 ELSE SeqMin(rows)
MaxValue(rows) == IF rows = <<>> THEN 0 ELSE SeqMax(rows)

\* The fills a cell can get.  A ramp colour is interpolateBlues at
\* t = num/den; the neutral fill "#eee" is no colour of that ramp.
NeutralFill == [ramp |-> FALSE, num |-> 0, den |-> 1]

\* colorScale: d3.scaleSequential over [minValue, maxValue]; a domain of
\* width zero maps every value to t = 0.
ColorScale(rows, v) ==
    LET lo == MinValue(rows)
        hi == MaxValue(rows)
    IN  IF hi = lo THEN [ramp |-> TRUE, num |-> 0, den |-> 1]
        ELSE [ramp |-> TRUE, num |-> v - lo, den |-> hi - lo]

\* The fill attribute of a cell.
CellFill(rows, d) ==
    LET dateKey == IsoDayKey(d)
    IN  IF DataMapHas(rows, dateKey) THEN ColorScale(rows, DataMapGet(rows, dateKey))
        ELSE NeutralFill

\* The rect of one visible date: x / fullCellSize, y / fullCellSize, fill.
CellOf(z, rows, firstSunday, d) ==
    [date |-> d,
     weekIndex |-> GetWeekNumber(firstSunday, d),
     dayOfWeek |-> GetDay(z, d),
     fill |-> CellFill(rows, d)]

DayCells(z, rows, dates, start, end) ==
    LET firstSunday == FirstSunday(z, start)
        visible == VisibleDates(dates, start, end)
    IN  [i \in 1..Len(visible) |-> CellOf(z, rows, firstSunday, visible[i])]

\* The text the mousemove handler of a cell writes: the local date and the
\* count, which reads "No data" when value is falsy.
CellTooltip(z, rows, d) ==
    LET dateKey == IsoDayKey(d)
        value == IF DataMapHas(rows, dateKey) /\ DataMapGet(rows, dateKey) # 0
                 THEN DataMapGet(rows, dateKey) ELSE 0
    IN  [formattedDate |-> LocalDayNo(z, d),
         noData |-> (value = 0),
         count |-> value]

\* The month labels: d3.timeMonths from the month of startDate to the month
\* of endDate, the first one skipped; x / fullCellSize of each is the whole
\* weeks of 24-hour days from firstSunday to the Sunday on or before the 1st.
MonthLabels(z, start, end) ==
    LET firstSunday == FirstSunday(z, start)
        first == GetFullYear(z, start) * 12 + GetMonth(z, start)
        last == GetFullYear(z, end) * 12 + GetMonth(z, end)
    IN  [i \in 1..(last - first) |->
            LET d == LocalDate(z, (first + i) \div 12, (first + i) % 12, 1)
                firstDay == LocalDate(z, GetFullYear(z, d), GetMonth(z, d), 1)
                firstSundayOfMonth == FirstSundayLoop(z, firstDay)
                daysSinceStart == (firstSundayOfMonth - firstSunday) \div HoursPerDay
            IN  [month |-> d, weeksSinceStart |-> daysSinceStart \div 7]]

NoTip == [formattedDate |-> NoDate, noData |-> FALSE, count |-> 0]

\* ---- inputs of the grid specification
NowYears == {2024, 2025}

\* startDate props as App.tsx builds them, new Date("YYYY-MM-DD").
StartProps ==
    { IsoDate(2024, 0, 1), IsoDate(2024, 3, 1), IsoDate(2023, 2, 1),
      IsoDate(2024, 1, 29), IsoDate(2024, 2, 10) }

SampleValues == {0, 5}

\* The series a daily fetch can have returned: rows for none, one or two of
\* the first days of the range.
DayDataChoices(start) ==
    LET k == IsoDayKey(start) * HoursPerDay
    IN  {<<>>} \cup {<<[date |-> k, value |-> v]>> : v \in SampleValues}
        \cup {<<[date |-> k, value |-> 0],
               [date |-> k + 2 * HoursPerDay, value |-> 5]>>}

\* The tooltip div as rendered: transparent, not yet placed.  index is the
\* index bisect returned (0-based, -1 before any), shown the row the text was
\* built from (0 if none), threw whether the handler ended in a TypeError.
HiddenTip ==
    [opacity |-> 0, left |-> 0, top |-> 0, index |-> -1, shown |-> 0,
     threw |-> FALSE]

\* The variables of the pointer specification, at rest.
PtrIdle ==
    /\ ppc = "idle"
    /\ chart = "heatmap"
    /\ containerWidth = 0
    /\ series = <<>>
    /\ mouse = [x |-> 0, y |-> 0]
    /\ tip = HiddenTip

GridInit ==
    /\ PtrIdle
    /\ CompIdle
    /\ gpc = "props"
    /\ zone \in Zones
    /\ \E in \in {[prop |-> NoDate, year |-> y] : y \in NowYears}
                 \cup {[prop |-> p, year |-> 2025] : p \in StartProps} :
          propStartDate = in.prop /\ clockYear = in.year
    /\ startDate = NoDate
    /\ endDate = NoDate
    /\ currentDate = NoDate
    /\ allDates = <<>>
    /\ dayData = <<>>
    /\ cells = <<>>
    /\ monthLabels = <<>>
    /\ hoverCell = 0
    /\ cellTip = NoTip

\* The render of CalendarHeatmap: the startDate and endDate memos, and the
\* entry of the allDatesInRange memo.
RenderHeatmap ==
    /\ gpc = "props"
    /\ LET start == StartDateMemo(zone, propStartDate, clockYear)
       IN  /\ startDate' = start
           /\ endDate' = EndDateMemo(zone, start)
           /\ currentDate' = start
    /\ allDates' = <<>>
    /\ gpc' = "loop"
    /\ UNCHANGED <<zone, clockYear, propStartDate, dayData, cells,
                   monthLabels, hoverCell, cellTip>>
    /\ UNCHANGED <<ptrVars, compVars>>

\* One test of the while condition of allDatesInRange, and the loop body.
DatesLoop ==
    /\ gpc = "loop"
    /\ IF currentDate <= endDate
       THEN /\ allDates' = Append(allDates, currentDate)
            /\ currentDate' = NextDay(zone, currentDate)
            /\ gpc' = "loop"
       ELSE /\ gpc' = "memo"
            /\ UNCHANGED <<allDates, currentDate>>
    /\ UNCHANGED <<zone, clockYear, propStartDate, startDate, endDate, dayData,
                   cells, monthLabels, hoverCell, cellTip>>
    /\ UNCHANGED <<ptrVars, compVars>>

\* drawHeatmap, run by the draw effect once the fetch has set data.
DrawHeatmap ==
    /\ gpc = "memo"
    /\ \E rows \in DayDataChoices(startDate) :
          /\ dayData' = rows
          /\ cells' = DayCells(zone, rows, allDates, startDate, endDate)
    /\ monthLabels' = MonthLabels(zone, startDate, endDate)
    /\ gpc' = "drawn"
    /\ UNCHANGED <<zone, clockYear, propStartDate, startDate, endDate,
                   currentDate, allDates, hoverCell, cellTip>>
    /\ UNCHANGED <<ptrVars, compVars>>

\* The pointer enters a cell and moves on it: the cell's mousemove handler
\* writes its text.
CellMouseMove ==
    /\ gpc = "drawn"
    /\ \E i \in 1..Len(cells) :
          /\ hoverCell' = i
          /\ cellTip' = CellTooltip(zone, dayData, cells[i].date)
    /\ gpc' = "hover"
    /\ UNCHANGED <<zone, clockYear, propStartDate, startDate, endDate,
                   currentDate, allDates, dayData, cells, monthLabels>>
    /\ UNCHANGED <<ptrVars, compVars>>

\* The pointer leaves the cell: the mouseout handler hides the tooltip.
CellMouseOut ==
    /\ gpc = "hover"
    /\ hoverCell' = 0
    /\ gpc' = "out"
    /\ UNCHANGED <<zone, clockYear, propStartDate, startDate, endDate,
                   currentDate, allDates, dayData, cells, monthLabels, cellTip>>
    /\ UNCHANGED <<ptrVars, compVars>>

GridNext ==
    \/ RenderHeatmap
    \/ DatesLoop
    \/ DrawHeatmap
    \/ CellMouseMove
    \/ CellMouseOut

SpecGrid == GridInit /\ [][GridNext]_vars

-----------------------------------------------------------------------------
(* The mousemove handlers: TimeSeriesPlot's line (bisection and tooltip     *)
(* placement) and the placement part of CalendarHeatmap's cells.            *)

Max(a, b) == IF a >= b THEN a ELSE b

\* drawPlot's geometry.  height = width * 9/16 need not be whole, so heights
\* are kept times 16.
MinPlotWidth == 1200
Margin == [top |-> 40, right |-> 40, bottom |-> 40, left |-> 60]

PlotWidth(cw)      == Max(MinPlotWidth, cw)
PlotHeight16(cw)   == 9 * PlotWidth(cw)
InnerWidth(cw)     == PlotWidth(cw) - Margin.left - Margin.right
InnerHeight16(cw)  == PlotHeight16(cw) - 16 * (Margin.top + Margin.bottom)

\* d3.extent of the times of the series.
TimeMin(rows) ==
    CHOOSE t \in {rows[i].time : i \in 1..Len(rows)} :
        \A j \in 1..Len(rows) : t <= rows[j].time
TimeMax(rows) ==
    CHOOSE t \in {rows[i].time : i \in 1..Len(rows)} :
        \A j \in 1..Len(rows) : t >= rows[j].time

\* new Date(d.time) < x.invert(mouseX), where x is the time scale over
\* [TimeMin, TimeMax] -> [0, innerWidth]:
\*   x.invert(mouseX) = t0 + (t1 - t0) * mouseX / innerWidth  (not clamped).
BeforeInverted(rows, cw, time, mouseX) ==
    (time - TimeMin(rows)) * InnerWidth(cw)
        < (TimeMax(rows) - TimeMin(rows)) * mouseX

\* d3.bisector(...).left: the least index (0-based) with no earlier row at or
\* after the inverted time, by halving [lo, hi).
RECURSIVE BisectLoop(_, _, _, _, _)
BisectLoop(rows, cw, mouseX, lo, hi) ==
    IF lo < hi
    THEN LET mid == (lo + hi) \div 2
         IN  IF BeforeInverted(rows, cw, rows[mid + 1].time, mouseX)
             THEN BisectLoop(rows, cw, mouseX, mid + 1, hi)
             ELSE BisectLoop(rows, cw, mouseX, lo, mid)
    ELSE lo

\* A lookup that steps back to the row before the inverted time.
BisectLeftNearestBefore(rows, cw, mouseX) ==
    Max(0, BisectLoop(rows, cw, mouseX, 0, Len(rows)) - 1)

BisectLeft(rows, cw, mouseX) == BisectLoop(rows, cw, mouseX, 0, Len(rows))

TsTooltipHeight == 80
TsTooltipWidth == 150
TsPadding == 10

\* The top of the line's tooltip.
TsTop(cw, mouseY) ==
    LET top == mouseY + Margin.top
    IN  IF 16 * (top + TsTooltipHeight + TsPadding) > InnerHeight16(cw)
        THEN mouseY - TsTooltipHeight - TsPadding + Margin.top
        ELSE top

\* The left of the line's tooltip.
TsLeft(cw, mouseX) ==
    LET left == mouseX + Margin.left
    IN  IF left + TsTooltipWidth + TsPadding > InnerWidth(cw)
        THEN mouseX - TsTooltipWidth - TsPadding + Margin.left
        ELSE left

\* The line's mousemove handler.  Reading d.time of data[index] throws when
\* index is past the last row; the tooltip then stays as it was.
LineTooltip(old, rows, cw, mouseX, mouseY) ==
    LET index == BisectLeft(rows, cw, mouseX)
    IN  IF index >= Len(rows)
        THEN [old EXCEPT !.index = index, !.threw = TRUE]
        ELSE [opacity |-> old.opacity,
              left |-> TsLeft(cw, mouseX),
              top |-> TsTop(cw, mouseY),
              index |-> index,
              shown |-> rows[index + 1].time,
              threw |-> FALSE]

\* drawHeatmap's geometry.
CellSize == 12
CellMargin == 2
FullCellSize == CellSize + CellMargin
HeatmapHeight == Max(7 * FullCellSize + 50, 230)

HeatTooltipWidth == 150
HeatTooltipHeight == 60
HeatPadding == 10

\* The left of a cell's tooltip.
HeatLeft(cw, mouseX) ==
    LET left == mouseX + HeatPadding
    IN  IF left + HeatTooltipWidth + HeatPadding > cw
        THEN mouseX - HeatTooltipWidth - HeatPadding
        ELSE left

\* The top of a cell's tooltip.
HeatTop(mouseY) ==
    LET top == mouseY
    IN  IF top + HeatTooltipHeight + HeatPadding > HeatmapHeight
        THEN mouseY - HeatTooltipHeight - HeatPadding
        ELSE top

\* The placement a cell's mousemove handler sets (its text is CellTooltip).
CellTooltipPlace(old, cw, mouseX, mouseY) ==
    [old EXCEPT !.left = HeatLeft(cw, mouseX), !.top = HeatTop(mouseY)]

\* ---- inputs of the pointer specification
MaxSeriesLen == 3
MaxPointerSamples == 40

\* The first n rows of a time-ordered series; its first two rows are those
\* of the spec's Scenario A (2024-01-01T00:00Z and 2024-01-02T00:00Z).
SeriesOfLen(n) ==
    [i \in 1..n |-> [time |-> IsoDate(2024, 0, 1) + 12 * i * (i - 1),
                     allocated |-> 10 * i,
                     total |-> 100]]

ContainerWidths(c) ==
    IF c = "timeseries" THEN {800, 1200, 1210, 1600} ELSE {300, 320, 800, 1280}

\* Evenly spread positions in 0..extent.
Samples(extent) ==
    {(k * extent) \div MaxPointerSamples : k \in 0..MaxPointerSamples}

\* The line is stroked 2 wide, so the pointer is on it up to 1 beyond its ends.
StrokeWidth == 2

\* Pointer positions, as d3.pointer returns them: relative to the line's <g>
\* for the line, to the container for a cell.
MouseXs(c, cw) ==
    IF c = "timeseries"
    THEN Samples(InnerWidth(cw))
         \cup {-(StrokeWidth \div 2), InnerWidth(cw) \div 2,
               InnerWidth(cw) + StrokeWidth \div 2}
    ELSE Samples(cw)

MouseYs(c, cw) ==
    IF c = "timeseries" THEN Samples(InnerHeight16(cw) \div 16)
    ELSE Samples(HeatmapHeight)

\* The variables of the grid specification, at rest.
GridIdle ==
    /\ gpc = "props"
    /\ zone = [name |-> "UTC", std |-> 0, rule |-> "none"]
    /\ clockYear = 2025
    /\ propStartDate = NoDate
    /\ startDate = NoDate
    /\ endDate = NoDate
    /\ currentDate = NoDate
    /\ allDates = <<>>
    /\ dayData = <<>>
    /\ cells = <<>>
    /\ monthLabels = <<>>
    /\ hoverCell = 0
    /\ cellTip = NoTip

PointerInit ==
    /\ GridIdle
    /\ CompIdle
    /\ ppc = "idle"
    /\ chart \in {"timeseries", "heatmap"}
    /\ containerWidth \in ContainerWidths(chart)
    /\ series \in IF chart = "timeseries"
                  THEN {SeriesOfLen(n) : n \in 0..MaxSeriesLen}
                  ELSE {<<>>}
    /\ mouse = [x |-> 0, y |-> 0]
    /\ tip = HiddenTip

\* A line of fewer than two rows has no stroke to point at.
Hoverable == chart = "heatmap" \/ Len(series) >= 2

\* mouseover: the tooltip becomes opaque.
MouseOver ==
    /\ ppc = "idle"
    /\ Hoverable
    /\ tip' = [tip EXCEPT !.opacity = 1]
    /\ ppc' = "over"
    /\ UNCHANGED <<chart, containerWidth, series, mouse>>
    /\ UNCHANGED <<gridVars, compVars>>

\* mousemove on the line of TimeSeriesPlot.
LineMouseMove ==
    /\ ppc = "over"
    /\ chart = "timeseries"
    /\ \E mx \in MouseXs(chart, containerWidth), my \in MouseYs(chart, containerWidth) :
          /\ mouse' = [x |-> mx, y |-> my]
          /\ tip' = LineTooltip(tip, series, containerWidth, mx, my)
    /\ ppc' = "moved"
    /\ UNCHANGED <<chart, containerWidth, series>>
    /\ UNCHANGED <<gridVars, compVars>>

\* mousemove on a cell of CalendarHeatmap.
CellMouseMovePlace ==
    /\ ppc = "over"
    /\ chart = "heatmap"
    /\ \E mx \in MouseXs(chart, containerWidth), my \in MouseYs(chart, containerWidth) :
          /\ mouse' = [x |-> mx, y |-> my]
          /\ tip' = CellTooltipPlace(tip, containerWidth, mx, my)
    /\ ppc' = "moved"
    /\ UNCHANGED <<chart, containerWidth, series>>
    /\ UNCHANGED <<gridVars, compVars>>

\* mouseout: the tooltip becomes transparent.
MouseOut ==
    /\ ppc = "moved"
    /\ tip' = [tip EXCEPT !.opacity = 0]
    /\ ppc' = "out"
    /\ UNCHANGED <<chart, containerWidth, series, mouse>>
    /\ UNCHANGED <<gridVars, compVars>>

PointerNext ==
    \/ MouseOver
    \/ LineMouseMove
    \/ CellMouseMovePlace
    \/ MouseOut

SpecPointer == PointerInit /\ [][PointerNext]_vars

-----------------------------------------------------------------------------
(* The life cycle of one component: render guards, the fetch effect, the    *)
(* resize effect and the draw effect.  State updates made in one            *)
(* continuation are committed in one render (React 18 batching).            *)

\* The messages setError is given.
HttpError(status) == [kind |-> "http", status |-> status]
NetworkError == [kind |-> "network", status |-> 0]
InvalidJsonError == [kind |-> "json", status |-> 0]
TypeErrorMessage == [kind |-> "type", status |-> 0]

\* The props of each component; CalendarHeatmap derives endDate and always
\* fetches daily.
PropNames(k) ==
    IF k = "timeseries"
    THEN {"chip", "startDate", "endDate", "interval", "lineColor"}
    ELSE {"chip", "startDate", "lineColor"}

PropValues(name) ==
    CASE name = "chip" -> {"cpu", "gpu"}
      [] name = "startDate" -> {1, 2}
      [] name = "endDate" -> {8, 9}
      [] name = "interval" -> {"", "hourly"}
      [] name = "lineColor" -> {"steelblue", "#9467bd"}

InitialProps(k) ==
    [chip |-> "cpu", startDate |-> 1,
     endDate |-> IF k = "timeseries" THEN 8 ELSE 1 + 365,
     interval |-> IF k = "timeseries" THEN "" ELSE "daily",
     lineColor |-> "steelblue"]

\* The dependency list of the fetch effect, as prop names.
FetchDeps(k) ==
    IF k = "timeseries" THEN {"chip", "startDate", "endDate", "interval"}
    ELSE {"chip", "startDate"}

\* The props after one of them changed (the heatmap's endDate memo follows
\* its startDate).
WithProp(k, p, name, v) ==
    LET q == [p EXCEPT ![name] = v]
    IN  IF k = "heatmap" THEN [q EXCEPT !.endDate = q.startDate + 365] ELSE q

\* The parameters of the URL fetchData builds.
UrlParams(p) ==
    [chip |-> p.chip, interval |-> p.interval, start |-> p.startDate,
     end |-> p.endDate]

\* A fetchData call at its first await, with the isMounted of its effect.
NewFetch(p) ==
    [params |-> UrlParams(p), isMounted |-> TRUE, stage |-> "sent",
     status |-> 0, committed |-> FALSE]

\* A cleanup that leaves the flags as they are.
CleanupKeepsFlags(fs) == fs

\* The cleanup of the fetch effect: isMounted = false.  Only the last effect
\* run has not been cleaned up yet.
Cleanup(fs) == [i \in DOMAIN fs |-> [fs[i] EXCEPT !.isMounted = FALSE]]

\* Render guards that test data before error.
RenderDataFirst(isLoading, err, d) ==
    IF isLoading THEN "loading"
    ELSE IF d.is # "null" THEN "chart"
    ELSE IF err # NoError THEN "error"
    ELSE "nodata"

\* The render guards: what the component returns.  An empty array is truthy.
Render(isLoading, err, d) ==
    IF isLoading THEN "loading"
    ELSE IF err # NoError THEN "error"
    ELSE IF d.is = "null" THEN "nodata"
    ELSE "chart"

\* What is on the page.
View ==
    IF ~mounted THEN "unmounted"
    ELSE IF crashed THEN "crashed"
    ELSE Render(loading, error, data)

\* measure: the width the scales are built for.
Measure(k, cw) == IF k = "timeseries" THEN PlotWidth(cw) ELSE cw

\* drawPlot / drawHeatmap: the svg cleared and redrawn from data, the
\* container's current width and the props of the closure.
Draw(k, d, cw, p) ==
    [series |-> d.id, for |-> d.for, rows |-> d.rows,
     width |-> Measure(k, cw),
     height16 |-> IF k = "timeseries" THEN PlotHeight16(cw)
                  ELSE 16 * HeatmapHeight,
     color |-> IF k = "timeseries" THEN p.lineColor ELSE "",
     chip |-> p.chip]

\* drawPlot throws when data cannot be iterated (d3.extent of a non-array).
DrawThrows(k, d) == k = "timeseries" /\ d.is = "object"

\* A handleResize that sets no attributes and draws nothing.
HandleResizeNoDraw(k, view, d, cw, p, old) == old

\* handleResize: with the container and svg in the page and data set, redraw.
HandleResize(k, view, d, cw, p, old) ==
    IF view = "chart" /\ d.is # "null" THEN Draw(k, d, cw, p) ELSE old

\* The draws of the effects that list data as a dependency, run after a
\* render in which data changed: the resize effect calls handleResize once
\* (its "initial size"), the draw effect calls the draw function.
ResizeEffectDraws(view, d) == IF view = "chart" /\ d.is # "null" THEN 1 ELSE 0
DrawEffectDraws(view, d) == IF view = "chart" /\ d.is # "null" THEN 1 ELSE 0

\* ---- inputs of the component specification
MaxFetches == 2

ClientWidths == {800, 1600}

Responses == {[ok |-> TRUE, status |-> 200], [ok |-> FALSE, status |-> 500],
              [ok |-> FALSE, status |-> 0]}     \* status 0: fetch rejected

\* Response bodies: not JSON, a JSON array of n rows, JSON null, a JSON object.
Bodies == {[json |-> FALSE, is |-> "", rows |-> 0],
           [json |-> TRUE, is |-> "array", rows |-> 0],
           [json |-> TRUE, is |-> "array", rows |-> 2],
           [json |-> TRUE, is |-> "null", rows |-> 0],
           [json |-> TRUE, is |-> "object", rows |-> 0]}

\* The state after the first render and its effects: "Loading..." is shown,
\* handleResize found no svg, the first fetch is under way.
Init ==
    /\ GridIdle
    /\ PtrIdle
    /\ kind \in {"timeseries", "heatmap"}
    /\ mounted = TRUE
    /\ crashed = FALSE
    /\ props = InitialProps(kind)
    /\ data = NullData
    /\ loading = TRUE
    /\ error = NoError
    /\ fetches = <<NewFetch(InitialProps(kind))>>
    /\ svg = NoSvg
    /\ clientWidth \in ClientWidths
    /\ handlerProps = InitialProps(kind)
    /\ lastCommit = NoCommit
    /\ change = [name |-> "mount", fetches |-> 1, draws |-> 0]
    /\ sizeEvent = "none"

Live == mounted /\ ~crashed

\* The record of a commit by fetch i.
CommitOf(i, status) ==
    [id |-> i, latest |-> Len(fetches), params |-> fetches[i].params,
     current |-> UrlParams(props), wasMounted |-> Live, status |-> status]

\* Fetch i has ended; did passes tells whether it committed state.
Settled(i, status, did) ==
    [fetches EXCEPT ![i].stage = "done", ![i].status = status,
                    ![i].committed = did]

\* The catch block of fetchData: setError and setLoading(false), if wanted.
CatchError(i, status, message) ==
    /\ fetches' = Settled(i, status, fetches[i].isMounted)
    /\ IF fetches[i].isMounted
       THEN /\ error' = message
            /\ loading' = FALSE
            /\ lastCommit' = CommitOf(i, status)
            /\ svg' = IF Live /\ Render(FALSE, message, data) = "chart"
                      THEN svg ELSE NoSvg
       ELSE UNCHANGED <<error, loading, lastCommit, svg>>
    /\ UNCHANGED <<kind, mounted, crashed, props, data, clientWidth,
                   handlerProps, change, sizeEvent>>

\* The end of the try block: setData and setLoading(false), if wanted, then
\* the render and the effects that depend on data.
CommitData(i, d) ==
    /\ IF fetches[i].isMounted
       THEN LET view == Render(FALSE, error, d)
                changed == d # data
                draws == IF changed
                         THEN ResizeEffectDraws(view, d) + DrawEffectDraws(view, d)
                         ELSE 0
                throws == draws > 0 /\ DrawThrows(kind, d)
            IN  /\ data' = d
                /\ loading' = FALSE
                /\ lastCommit' = CommitOf(i, 200)
                /\ crashed' = throws
                /\ fetches' = IF throws THEN Cleanup(Settled(i, 200, TRUE))
                              ELSE Settled(i, 200, TRUE)
                /\ svg' = IF throws \/ view # "chart" THEN NoSvg
                          ELSE IF draws > 0 THEN Draw(kind, d, clientWidth, props)
                          ELSE svg
                /\ handlerProps' = IF changed THEN props ELSE handlerProps
                /\ change' = [change EXCEPT !.draws = @ + draws]
                /\ sizeEvent' = IF draws > 0 /\ ~throws THEN "none" ELSE sizeEvent
       ELSE /\ fetches' = Settled(i, 200, FALSE)
            /\ UNCHANGED <<data, loading, lastCommit, crashed, svg, handlerProps,
                           change, sizeEvent>>
    /\ UNCHANGED <<kind, mounted, props, error, clientWidth>>

\* The fetch of call i settles: it rejects, or resolves with a status.
FetchRespond ==
    /\ \E i \in DOMAIN fetches, r \in Responses :
          /\ fetches[i].stage = "sent"
          /\ IF r.ok
             THEN /\ fetches' = [fetches EXCEPT ![i].stage = "reading"]
                  /\ UNCHANGED <<kind, mounted, crashed, props, data, loading,
                                 error, svg, clientWidth, handlerProps,
                                 lastCommit, change, sizeEvent>>
             ELSE CatchError(i, r.status,
                             IF r.status = 0 THEN NetworkError
                             ELSE HttpError(r.status))
    /\ UNCHANGED <<gridVars, ptrVars>>

\* response.text() of call i resolves: parse, transform, commit.
FetchBody ==
    /\ \E i \in DOMAIN fetches, b \in Bodies :
          /\ fetches[i].stage = "reading"
          /\ IF ~b.json THEN CatchError(i, 200, InvalidJsonError)
             ELSE IF kind = "heatmap" /\ b.is # "array"
             THEN CatchError(i, 200, TypeErrorMessage)   \* rawData.map throws
             ELSE CommitData(i, IF b.is = "null" THEN NullData
                                ELSE [is |-> b.is, for |-> fetches[i].params,
                                      rows |-> b.rows, id |-> i])
    /\ UNCHANGED <<gridVars, ptrVars>>

\* The parent renders the component with one prop changed.  The fetch effect
\* is cleaned up and run again when the prop is one of its dependencies; the
\* effects that depend on data do not run.
ChangeProp ==
    /\ Live
    /\ \E name \in PropNames(kind) :
       \E v \in PropValues(name) \ {props[name]} :
          LET q == WithProp(kind, props, name, v)
              refetch == name \in FetchDeps(kind)
          IN  /\ refetch => Len(fetches) < MaxFetches
              /\ props' = q
              /\ fetches' = IF refetch THEN Append(Cleanup(fetches), NewFetch(q))
                            ELSE fetches
              /\ change' = [name |-> name,
                            fetches |-> IF refetch THEN 1 ELSE 0,
                            draws |-> 0]
    /\ UNCHANGED <<kind, mounted, crashed, data, loading, error, svg,
                   clientWidth, handlerProps, lastCommit, sizeEvent>>
    /\ UNCHANGED <<gridVars, ptrVars>>

\* The parent renders the component again with props of the same values,
\* its Date props built anew as App.tsx builds them.  TimeSeriesPlot's memos
\* compare getTime(); CalendarHeatmap's startDate memo compares the object.
RerenderSameProps ==
    /\ Live
    /\ LET refetch == kind = "heatmap"
       IN  /\ refetch => Len(fetches) < MaxFetches
           /\ fetches' = IF refetch THEN Append(Cleanup(fetches), NewFetch(props))
                         ELSE fetches
           /\ change' = [name |-> "none",
                         fetches |-> IF refetch THEN 1 ELSE 0,
                         draws |-> 0]
    /\ UNCHANGED <<kind, mounted, crashed, props, data, loading, error, svg,
                   clientWidth, handlerProps, lastCommit, sizeEvent>>
    /\ UNCHANGED <<gridVars, ptrVars>>

\* The window is resized, the container with it: the resize listener runs.
WindowResize ==
    /\ Live
    /\ \E w \in ClientWidths \ {clientWidth} :
          /\ clientWidth' = w
          /\ svg' = HandleResize(kind, View, data, w, handlerProps, svg)
    /\ sizeEvent' = "window"
    /\ UNCHANGED <<kind, mounted, crashed, props, data, loading, error, fetches,
                   handlerProps, lastCommit, change>>
    /\ UNCHANGED <<gridVars, ptrVars>>

\* The container (width: 100% of its parent) changes size with the layout of
\* the page, the window keeping its size: no listener runs.
LayoutResize ==
    /\ Live
    /\ \E w \in ClientWidths \ {clientWidth} : clientWidth' = w
    /\ sizeEvent' = "layout"
    /\ UNCHANGED <<kind, mounted, crashed, props, data, loading, error, fetches,
                   svg, handlerProps, lastCommit, change>>
    /\ UNCHANGED <<gridVars, ptrVars>>

\* The component leaves the tree: the cleanups of its effects run.
Unmount ==
    /\ Live
    /\ mounted' = FALSE
    /\ fetches' = Cleanup(fetches)
    /\ svg' = NoSvg
    /\ UNCHANGED <<kind, crashed, props, data, loading, error, clientWidth,
                   handlerProps, lastCommit, change, sizeEvent>>
    /\ UNCHANGED <<gridVars, ptrVars>>

Next ==
    \/ FetchRespond
    \/ FetchBody
    \/ ChangeProp
    \/ RerenderSameProps
    \/ WindowResize
    \/ LayoutResize
    \/ Unmount

Spec == Init /\ [][Next]_vars

-----------------------------------------------------------------------------
(* Claims about the pointer handlers, checked under SpecPointer.            *)

\* The pointer of Scenario A: the two-row series of 2024-01-01T00:00Z and
\* 2024-01-02T00:00Z, and a position that inverts to 2024-01-01T12:00Z.
ScenarioA ==
    /\ ppc = "moved"
    /\ chart = "timeseries"
    /\ series = SeriesOfLen(2)
    /\ 2 * mouse.x = InnerWidth(containerWidth)

\* C3 as stated: in Scenario A the handler shows the 2024-01-01 sample.
C3_ScenarioA_Original == ScenarioA => tip.shown = IsoDate(2024, 0, 1)

\* C3 as amended: in Scenario A the left bisection returns index 1 and the
\* handler shows the 2024-01-02 sample, the first one at or after the
\* inverted time.
C3_ScenarioA ==
    ScenarioA =>
        /\ tip.index = 1
        /\ tip.shown = IsoDate(2024, 0, 2)
        /\ ~tip.threw

C3_Witness == ScenarioA /\ tip.shown = series[2].time

\* The pointer lies strictly inside the area the handler's coordinates span.
PointerInside ==
    IF chart = "timeseries"
    THEN /\ 0 < mouse.x /\ mouse.x < InnerWidth(containerWidth)
         /\ 0 < mouse.y /\ 16 * mouse.y < InnerHeight16(containerWidth)
    ELSE /\ 0 < mouse.x /\ mouse.x < containerWidth
         /\ 0 < mouse.y /\ mouse.y < HeatmapHeight

\* The drawable area: the measured width (time-series: at least 1200) and
\* the height derived from it (heatmap: the fixed 230); heights times 16.
DrawableWidth ==
    IF chart = "timeseries" THEN PlotWidth(containerWidth) ELSE containerWidth
DrawableHeight16 ==
    IF chart = "timeseries" THEN PlotHeight16(containerWidth)
    ELSE 16 * HeatmapHeight

TipWidth  == IF chart = "timeseries" THEN TsTooltipWidth ELSE HeatTooltipWidth
TipHeight == IF chart = "timeseries" THEN TsTooltipHeight ELSE HeatTooltipHeight

\* C4: for every pointer strictly inside the drawable area and every
\* container width, the tooltip's box lies within
\* [0, drawableWidth] x [0, drawableHeight].
C4_TooltipInside ==
    (ppc = "moved" /\ PointerInside /\ ~tip.threw) =>
        /\ tip.left >= 0
        /\ tip.top >= 0
        /\ tip.left + TipWidth <= DrawableWidth
        /\ 16 * (tip.top + TipHeight) <= DrawableHeight16

-----------------------------------------------------------------------------
(* Claims about the grid, checked under SpecGrid.                           *)

\* The pairs (weekIndex, dayOfWeek) of the drawn cells.
CellPairs == {<<cells[i].weekIndex, cells[i].dayOfWeek>> : i \in 1..Len(cells)}

\* Whole calendar days from the local date of a to the local date of b.
DaysBetween(z, a, b) == LocalDayNo(z, b) - LocalDayNo(z, a)

\* C1: for every start date and time zone the heatmap draws exactly
\* daysBetween(start, end) + 1 cells, one for each calendar day of the range in
\* order (none skipped, none twice), no two cells share a (weekIndex,
\* dayOfWeek) pair, and the start cell's dayOfWeek is the weekday of start.
C1_GridCells ==
    gpc = "drawn" =>
        /\ Len(cells) = DaysBetween(zone, startDate, endDate) + 1
        /\ \A i \in 1..Len(cells) :
              DaysBetween(zone, startDate, cells[i].date) = i - 1
        /\ Cardinality(CellPairs) = Len(cells)
        /\ Len(cells) >= 1 =>
              cells[1].dayOfWeek = WeekDayOf(LocalDayNo(zone, startDate))

\* C2: the grid anchor is the Sunday on or before start, every cell's
\* weekIndex is floor(daysBetween(gridAnchor, date) / 7) with dayOfWeek
\* Sunday = 0, and a range starting on new Date("2024-01-01"), a Monday, has
\* its first cell at weekIndex 0, dayOfWeek 1 with gridAnchor 2023-12-31.
C2_WeekIndex ==
    gpc = "drawn" =>
        LET gridAnchor == FirstSunday(zone, startDate)
        IN  /\ GetDay(zone, gridAnchor) = 0
            /\ DaysBetween(zone, gridAnchor, startDate) \in 0..6
            /\ \A i \in 1..Len(cells) :
                  /\ cells[i].weekIndex =
                        DaysBetween(zone, gridAnchor, cells[i].date) \div 7
                  /\ cells[i].dayOfWeek =
                        WeekDayOf(LocalDayNo(zone, cells[i].date))
            /\ propStartDate = IsoDate(2024, 0, 1) =>
                  /\ cells[1].weekIndex = 0
                  /\ cells[1].dayOfWeek = 1
                  /\ CivilFromDays(LocalDayNo(zone, gridAnchor))
                        = [y |-> 2023, m |-> 11, d |-> 31]

\* C10: a day without a Sample is never presented like a day whose Sample
\* value is 0: the former is filled with the neutral fill, the latter with a
\* ramp colour, and the tooltip written for a value-0 day differs from the
\* one written for the same day without a Sample.
C10_NoDataIsNotZero ==
    gpc = "hover" =>
        LET c == cells[hoverCell]
            key == IsoDayKey(c.date)
        IN  /\ ~DataMapHas(dayData, key) => c.fill = NeutralFill
            /\ (DataMapHas(dayData, key) /\ DataMapGet(dayData, key) = 0) =>
                  /\ c.fill # NeutralFill
                  /\ cellTip # CellTooltip(zone, <<>>, c.date)


-----------------------------------------------------------------------------
(* Claims about the component life cycle, checked under Spec.               *)

\* Call i of fetchData ends in this step.
Completes(i) == fetches[i].stage # "done" /\ fetches'[i].stage = "done"

\* Call i was issued by the effect run that is still in force.
Wanted(i) ==
    /\ Live
    /\ i = Len(fetches)
    /\ fetches[i].params = UrlParams(props)

\* C5: a fetch that completes, with success or with failure, after the
\* component was unmounted or after a fetch parameter changed commits
\* nothing: data, error and loading keep their values.  Only the fetch
\* issued for the current parameters of a mounted component commits.
C5_StaleDiscarded ==
    [][\A i \in DOMAIN fetches :
          Completes(i) =>
             IF Wanted(i) THEN fetches'[i].committed
             ELSE /\ ~fetches'[i].committed
                  /\ UNCHANGED <<data, error, loading, svg>>]_vars

\* A successful result for parameters that are no longer current has arrived
\* at a mounted component and was dropped.
C5_Witness ==
    /\ Live
    /\ \E i \in DOMAIN fetches :
          /\ i < Len(fetches)
          /\ fetches[i].stage = "done"
          /\ fetches[i].status = 200
          /\ fetches[i].params # UrlParams(props)
          /\ ~fetches[i].committed
    /\ \A i \in DOMAIN fetches : fetches[i].committed => i = Len(fetches)

\* C6: after a successful fetch of a JSON array of zero rows the component
\* shows "No data available" and builds no scales (nothing is drawn).
C6_EmptySeries ==
    (Live /\ ~loading /\ error = NoError /\ data.is = "array" /\ data.rows = 0)
        => View = "nodata" /\ svg = NoSvg

\* C7: when the fetch for the current parameters answers HTTP 500 the
\* component shows its error state with a message that carries the status,
\* and from then on the error state stays and no series of an earlier
\* successful fetch is displayed.
C7_Http500 ==
    [][/\ \A i \in DOMAIN fetches :
             (Completes(i) /\ Wanted(i) /\ fetches'[i].status = 500) =>
                 /\ error' = [kind |-> "http", status |-> 500]
                 /\ View' = "error"
       /\ error # NoError =>
             /\ error' # NoError
             /\ View' \in {"error", "unmounted"}
             /\ svg' = NoSvg]_vars

\* A series was fetched, then the fetch for changed parameters answered 500:
\* the error is shown and the series is not.
C7_Witness ==
    /\ Live
    /\ data.is = "array" /\ data.rows > 0
    /\ lastCommit.status = 500
    /\ error = [kind |-> "http", status |-> 500]
    /\ View = "error"
    /\ svg = NoSvg

\* The latest fetch has delivered a series and the chart shows it.
Delivered ==
    /\ View = "chart"
    /\ fetches[Len(fetches)].committed
    /\ data.id = Len(fetches)

\* C8: a change of one input (chip, start date, end date, interval, line
\* colour) starts exactly one fetch and leads to exactly one redraw of the
\* chart, which then shows the new input; a render with inputs of unchanged
\* value starts no fetch and no redraw.
C8_OneFetchOneDraw ==
    /\ change.name \in PropNames(kind) =>
          /\ change.fetches = 1
          /\ change.draws <= 1
          /\ Delivered => change.draws = 1 /\ svg.color = props.lineColor
    /\ change.name = "none" => change.fetches = 0 /\ change.draws = 0

Refetching ==
    /\ Live
    /\ change.name \in FetchDeps(kind)
    /\ fetches[Len(fetches)].stage # "done"

\* C11: from the change of a parameter that starts a new fetch until that
\* fetch ends, the component neither holds nor displays the series that was
\* fetched for the previous parameters.
C11_DiscardedOnRefetch ==
    Refetching => data.is = "null" /\ svg = NoSvg

\* Call i, a wanted call, ends in this step on a body that is JSON but no
\* array: TimeSeriesPlot commits it as data, CalendarHeatmap's rawData.map
\* throws on it.
EndsOnNonArray(i) ==
    /\ Completes(i)
    /\ Wanted(i)
    /\ fetches'[i].status = 200
    /\ \/ data'.is = "object" /\ data'.id = i
       \/ error' = TypeErrorMessage /\ lastCommit'.id = i

\* C12: a 2xx response whose body is JSON of another shape than an array of
\* rows is a failed fetch in both components: the error state is shown,
\* nothing is drawn from the body, it is not kept as data and no exception
\* leaves the component.
C12_MalformedIsError ==
    [][\A i \in DOMAIN fetches :
          EndsOnNonArray(i) =>
             /\ ~crashed'
             /\ View' = "error"
             /\ svg' = NoSvg
             /\ data' = data]_vars


-----------------------------------------------------------------------------
(* Further claims about the grid, checked under SpecGrid.                   *)

\* The calendar month of an instant, in local time, as year * 12 + month.
MonthOf(z, t) == GetFullYear(z, t) * 12 + GetMonth(z, t)

\* The months that have a cell, and the first of them.
CellMonths == {MonthOf(zone, cells[i].date) : i \in 1..Len(cells)}

FirstCellMonth == CHOOSE m \in CellMonths : \A n \in CellMonths : m <= n

\* C13: the heatmap has one month label for each calendar month of the
\* range after the first month and none for the first; each label stands at
\* the week column of the Sunday on or before the 1st of its month, which is
\* the weekIndex of the cell of that month's first day.
C13_MonthLabels ==
    gpc = "drawn" =>
        /\ Len(monthLabels) = Cardinality(CellMonths) - 1
        /\ {MonthOf(zone, monthLabels[i].month) : i \in 1..Len(monthLabels)}
              = CellMonths \ {FirstCellMonth}
        /\ \A i \in 1..Len(monthLabels) :
              LET first == LocalDayNo(zone, monthLabels[i].month)
                  sunday == first - WeekDayOf(first)
                  anchor == LocalDayNo(zone, FirstSunday(zone, startDate))
              IN  /\ monthLabels[i].weeksSinceStart = (sunday - anchor) \div 7
                  /\ \A j \in 1..Len(cells) :
                        LocalDayNo(zone, cells[j].date) = first =>
                           cells[j].weekIndex = monthLabels[i].weeksSinceStart


-----------------------------------------------------------------------------
(* Further claims about the pointer handlers, checked under SpecPointer.    *)

\* The placement before any correction, the padding, and the edges the
\* handlers compare with (heights times 16).
DefaultLeft ==
    IF chart = "timeseries" THEN mouse.x + Margin.left ELSE mouse.x + HeatPadding
DefaultTop ==
    IF chart = "timeseries" THEN mouse.y + Margin.top ELSE mouse.y
TipPadding == IF chart = "timeseries" THEN TsPadding ELSE HeatPadding
RightEdge ==
    IF chart = "timeseries" THEN InnerWidth(containerWidth) ELSE containerWidth
BottomEdge16 ==
    IF chart = "timeseries" THEN InnerHeight16(containerWidth)
    ELSE 16 * HeatmapHeight

\* C14: in both charts, a placement that would pass the right edge ends at
\* the default left minus (tooltip width + padding), one that would pass the
\* bottom edge ends at the default top minus (tooltip height + padding), and
\* each correction is decided on its own axis alone.
C14_ShiftAmounts ==
    (ppc = "moved" /\ ~tip.threw) =>
        /\ tip.left = IF DefaultLeft + TipWidth + TipPadding > RightEdge
                      THEN DefaultLeft - (TipWidth + TipPadding)
                      ELSE DefaultLeft
        /\ tip.top = IF 16 * (DefaultTop + TipHeight + TipPadding) > BottomEdge16
                     THEN DefaultTop - (TipHeight + TipPadding)
                     ELSE DefaultTop


-----------------------------------------------------------------------------
(* A further claim about the grid, checked under SpecGrid.                  *)

\* C15: the date key under which a cell's Sample is looked up, for the fill
\* and for the tooltip, is the calendar day that gives the cell its
\* dayOfWeek row and the date its tooltip shows: a cell displays exactly the
\* Sample of its own calendar date.
C15_KeyIsCellDay ==
    /\ gpc = "drawn" =>
          \A i \in 1..Len(cells) :
             LET day == LocalDayNo(zone, cells[i].date)
             IN  /\ IsoDayKey(cells[i].date) = day
                 /\ cells[i].dayOfWeek = WeekDayOf(day)
                 /\ cells[i].fill =
                       IF DataMapHas(dayData, day)
                       THEN ColorScale(dayData, DataMapGet(dayData, day))
                       ELSE NeutralFill
    /\ gpc = "hover" =>
          /\ cellTip.formattedDate = IsoDayKey(cells[hoverCell].date)
          /\ cellTip = CellTooltip(zone, dayData,
                                   cellTip.formattedDate * HoursPerDay)


-----------------------------------------------------------------------------
(* Further claims about the component and the line's handler.               *)

\* A fetch started by a change of a parameter has delivered a series of at
\* least one row to the mounted component.
DeliveredAfterChange ==
    /\ Live
    /\ change.name \in FetchDeps(kind)
    /\ fetches[Len(fetches)].committed
    /\ fetches[Len(fetches)].status = 200
    /\ data.is = "array" /\ data.rows > 0 /\ data.id = Len(fetches)

\* C16 (under Spec): an error belongs to its own fetch.  Once a later fetch,
\* started by a change of a parameter, has delivered a series of at least one
\* row, the chart of that series is displayed and the earlier error is not.
C16_ErrorCleared ==
    DeliveredAfterChange =>
        /\ error = NoError
        /\ View = "chart"
        /\ svg.series = data.id

\* C17 (under SpecPointer): whenever the line's mousemove handler has run on
\* a series of at least one row, also at a pointer position that inverts to a
\* time after the last row, the index of the left bisection lies in
\* 0..length-1 and the handler has read a row and has not failed.
C17_IndexInRange ==
    (ppc = "moved" /\ chart = "timeseries" /\ Len(series) >= 1) =>
        /\ 0 <= tip.index /\ tip.index <= Len(series) - 1
        /\ ~tip.threw
        /\ \E i \in 1..Len(series) : tip.shown = series[i].time

=============================================================================
